---- MODULE Spec2Model ----
(***************************************************************************)
(* A model of the automation and of the quantum-model building code of the *)
(* classiq-library repository:                                             *)
(*   - the workflow .github/workflows/Notification-developers-onboarding   *)
(*     (one run of the job comment_on_merged_pull_request);                *)
(*   - the local hooks of .pre-commit-config.yaml (one pre-commit run);    *)
(*   - the flexible QPE of the high_level_modeling_flexible_qpe tutorial   *)
(*     and of qpe_for_matrix.qmod, with its power-logic operands;          *)
(*   - the main functions of the quantum models (the design example, the   *)
(*     HHL models, the QPE for a matrix, the discrete quantum walk, the    *)
(*     set cover QAOA), run statement by statement;                        *)
(*   - the problem-definition cell of the HHL workshop.                    *)
(* The parts share no state; each has its own specification.               *)
(***************************************************************************)
EXTENDS Integers, Sequences, FiniteSets, TLC

VARIABLES
    \* ---- workflow run
    event,        \* the payload of the triggering event (github.event)
    closedPRs,    \* the author's closed pull requests the search API knows
    wf,           \* position of the workflow run
    env,          \* the job's environment (GITHUB_ENV), name -> value
    calls,        \* the API calls made, in order, each with its outcome
    comments,     \* the comments created, in order
    failures,     \* the messages given to core.setFailed, in order
    escaped,      \* TRUE once an exception left a script uncaught
    \* ---- pre-commit run
    staged,       \* the changed file paths of the commit
    hookIx,       \* index of the local hook being run (0: no run yet)
    pending,      \* batches of the current hook not started yet
    running,      \* processes of hooks running now
    passed,       \* hook id -> the file paths passed to it so far
    \* ---- flexible QPE
    model,        \* the arguments main gives the QPE and its operand
    qpc,          \* position in my_qpe_flexible
    rep,          \* the index of the repeat iteration
    powLeft,      \* applications left in the running power block
    circuit,      \* the operations applied so far, in order
    uCalls,       \* calls of unitary made so far
    trotterCalls, \* the calls of suzuki_trotter made so far, in order
    \* ---- a quantum model's main
    prog,         \* the model whose main is run
    qi,           \* index of the next statement of main (0: none entered)
    declared,     \* the quantum variables declared so far
    initialized,  \* the quantum variables initialized now
    early,        \* the variables operated on before being initialized
    qtrace,       \* the statements run so far, in order
    regs,         \* size and fraction digits of the followed registers
    branches,     \* the basis states the followed registers may be in
    sample,       \* the basis state read from the result
    \* ---- problem-definition cell of the HHL workshop
    matA,         \* the matrix A
    cpc,          \* position in the cell
    eigenvalues,  \* the eigenvalues np.linalg.eig returned (w)
    lamIx,        \* index of the eigenvalue the loop is at
    raised,       \* the message of the exception raised ("none": none)
    solved        \* TRUE once the classical solution is computed

wfVars == <<event, closedPRs, wf, env, calls, comments, failures, escaped>>
pcVars == <<staged, hookIx, pending, running, passed>>
qpeVars == <<model, qpc, rep, powLeft, circuit, uCalls, trotterCalls>>
qmVars == <<prog, qi, declared, initialized, early, qtrace, regs, branches, sample>>
cellVars == <<matA, cpc, eigenvalues, lamIx, raised, solved>>
vars == <<wfVars, pcVars, qpeVars, qmVars, cellVars>>

Min(a, b) == IF a <= b THEN a ELSE b
Max(a, b) == IF a >= b THEN a ELSE b

(***************************************************************************)
(* Part 1: the workflow Notification-developers-onboarding.yml             *)
(***************************************************************************)

\* Bounds of the events drawn.
MaxPRNumber == 2

Authors == {"alice", "bob"}
Owners == {"Classiq", "srulre"}
RepoNames == {"classiq-library"}
EventActions == {"opened", "closed", "reopened"}
ErrorMessages == {"API rate limit exceeded", "Validation Failed"}

\* on.pull_request_target.types
OnTypes == {"closed"}

\* per_page of the search request
PerPage == 1000

\* The numbers of merged and of unmerged closed pull requests of an author.
MergedCounts == {0, 1, 2, 3, 5, 10, 11, PerPage + 1}
UnmergedCounts == {0, 1, PerPage}

NoEvent == [action |-> "none"]

Events ==
    [action : EventActions,
     pull_request : [merged : BOOLEAN, number : 1..MaxPRNumber, user : [login : Authors]],
     repository : [name : RepoNames, owner : [login : Owners]]]

\* Number <-> decimal string, as String(n) and parseInt(s) do it.
DigitChars == <<"0", "1", "2", "3", "4", "5", "6", "7", "8", "9">>

RECURSIVE NumberToString(_)
NumberToString(n) ==
    IF n < 10 THEN <<DigitChars[n + 1]>>
    ELSE Append(NumberToString(n \div 10), DigitChars[(n % 10) + 1])

NaN == "NaN"
IsNaN(x) == x \notin Int

IsDigit(c) == \E d \in 1..10 : DigitChars[d] = c
DigitValue(c) == (CHOOSE d \in 1..10 : DigitChars[d] = c) - 1

RECURSIVE ParseDigits(_, _, _)
ParseDigits(s, i, acc) ==
    IF i > Len(s) \/ ~IsDigit(s[i]) THEN acc
    ELSE ParseDigits(s, i + 1, acc * 10 + DigitValue(s[i]))

\* parseInt(process.env.NAME): NaN for an undefined variable or no leading digit.
ParseInt(e, name) ==
    IF name \notin DOMAIN e THEN NaN
    ELSE IF Len(e[name]) = 0 \/ ~IsDigit(e[name][1]) THEN NaN
    ELSE ParseDigits(e[name], 1, 0)

\* core.exportVariable(name, value)
ExportVariable(e, name, value) ==
    [n \in (DOMAIN e) \cup {name} |-> IF n = name THEN NumberToString(value) ELSE e[n]]

\* The pages the search can answer with: the first per_page items of the
\* author's closed pull requests, in the order the server chooses.
SearchPages(idx) ==
    LET total == idx.merged + idx.unmerged
        size == Min(total, PerPage)
    IN  {[merged |-> k, unmerged |-> size - k] :
            k \in Max(0, size - idx.unmerged)..Min(idx.merged, size)}

\* data.items.filter(pr => pr.pull_request.merged_at).length
CountMerged(page) == page.merged

\* getRandomEmoji: an index into the list of 10 emojis.
EmojiCount == 10

\* getMessage(count): the template chosen by the switch.
GetMessage(count, emoji, author, repo) ==
    LET template ==
            IF IsNaN(count) THEN "great_job"
            ELSE IF count = 1 THEN "first"
            ELSE IF count = 2 THEN "second"
            ELSE IF count = 3 THEN "third"
            ELSE IF count = 5 THEN "high_five"
            ELSE IF count = 10 THEN "double_digits"
            ELSE IF count > 10 THEN "incredible"
            ELSE "great_job"
    IN  [template |-> template, emoji |-> emoji, author |-> author,
         repo |-> repo, count |-> count]

\* A catch block that reports and throws the error again.
CountCatchRethrows(error) ==
    [setFailed |-> <<"Error counting merged pull requests: ", error>>, rethrown |-> TRUE]

\* The catch blocks of the two scripts.
CountCatch(error) ==
    [setFailed |-> <<"Error counting merged pull requests: ", error>>, rethrown |-> FALSE]

CommentCatch(error) ==
    [setFailed |-> <<"Error creating comment: ", error>>, rethrown |-> FALSE]

\* A request that takes the count for the number of the pull request.
CreateCommentOnCount(e, prNumber, message) ==
    [owner |-> e["OWNER"], repo |-> e["REPO"], issue_number |-> ParseInt(e, "PR_COUNT"),
     body |-> message]

\* The request of github.rest.issues.createComment.
CreateCommentParams(e, prNumber, message) ==
    [owner |-> e["OWNER"], repo |-> e["REPO"], issue_number |-> prNumber, body |-> message]

InitWorkflow ==
    /\ event = NoEvent
    /\ closedPRs = [merged |-> 0, unmerged |-> 0]
    /\ wf = "idle"
    /\ env = [n \in {} |-> <<>>]
    /\ calls = <<>>
    /\ comments = <<>>
    /\ failures = <<>>
    /\ escaped = FALSE

\* A pull_request_target event arrives; the workflow is triggered by the
\* types listed under on.pull_request_target.
PullRequestEvent ==
    /\ wf = "idle"
    /\ \E e \in Events, m \in MergedCounts, u \in UnmergedCounts :
          \* the pull request of a closed event is one of the author's closed ones
          /\ (e.action = "closed" /\ e.pull_request.merged) => m >= 1
          /\ (e.action = "closed" /\ ~e.pull_request.merged) => u >= 1
          /\ event' = e
          /\ closedPRs' = [merged |-> m, unmerged |-> u]
          /\ wf' = IF e.action \in OnTypes THEN "triggered" ELSE "not_triggered"
    /\ UNCHANGED <<env, calls, comments, failures, escaped, pcVars, qpeVars, qmVars, cellVars>>

\* The job without its condition.
JobIfMissing == TRUE

\* jobs.comment_on_merged_pull_request.if
JobIf == event.pull_request.merged = TRUE

JobCondition ==
    /\ wf = "triggered"
    /\ wf' = IF JobIf THEN "checkout" ELSE "skipped"
    /\ UNCHANGED <<event, closedPRs, env, calls, comments, failures, escaped, pcVars, qpeVars, qmVars, cellVars>>

\* step: Checkout Repository
CheckoutRepository ==
    /\ wf = "checkout"
    /\ \E ok \in BOOLEAN : wf' = IF ok THEN "setenv" ELSE "failure"
    /\ UNCHANGED <<event, closedPRs, env, calls, comments, failures, escaped, pcVars, qpeVars, qmVars, cellVars>>

\* step: Set Environment Variables
SetEnvironmentVariables ==
    /\ wf = "setenv"
    /\ env' = [n \in (DOMAIN env) \cup {"AUTHOR", "REPO", "OWNER"} |->
                 CASE n = "AUTHOR" -> event.pull_request.user.login
                   [] n = "REPO" -> event.repository.name
                   [] n = "OWNER" -> event.repository.owner.login
                   [] OTHER -> env[n]]
    /\ wf' = "count"
    /\ UNCHANGED <<event, closedPRs, calls, comments, failures, escaped, pcVars, qpeVars, qmVars, cellVars>>

\* A count step that searches again after a failed search.
CountMergedPullRequestsRetrying ==
    /\ wf = "count"
    /\ \/ \E page \in SearchPages(closedPRs) :
             /\ calls' = Append(calls, [api |-> "search.issuesAndPullRequests", result |-> "ok"])
             /\ env' = ExportVariable(env, "PR_COUNT", CountMerged(page))
             /\ wf' = "comment"
       \/ \E error \in ErrorMessages :
             /\ calls' = Append(calls, [api |-> "search.issuesAndPullRequests", result |-> error])
             /\ UNCHANGED <<env, wf>>
    /\ UNCHANGED <<event, closedPRs, comments, failures, escaped, pcVars, qpeVars, qmVars, cellVars>>

\* A count step whose failure lets the next step run.
CountMergedPullRequestsContinuing ==
    /\ wf = "count"
    /\ \/ \E page \in SearchPages(closedPRs) :
             /\ calls' = Append(calls, [api |-> "search.issuesAndPullRequests", result |-> "ok"])
             /\ env' = ExportVariable(env, "PR_COUNT", CountMerged(page))
             /\ UNCHANGED failures
       \/ \E error \in ErrorMessages :
             /\ calls' = Append(calls, [api |-> "search.issuesAndPullRequests", result |-> error])
             /\ failures' = Append(failures, CountCatch(error).setFailed)
             /\ UNCHANGED env
    /\ wf' = "comment"
    /\ UNCHANGED <<event, closedPRs, comments, escaped, pcVars, qpeVars, qmVars, cellVars>>

\* step: Count Merged Pull Requests. The search either throws or answers
\* with one page; a step that called core.setFailed fails, and the steps
\* after a failed step do not run.
CountMergedPullRequests ==
    /\ wf = "count"
    /\ \/ \E page \in SearchPages(closedPRs) :
             /\ calls' = Append(calls, [api |-> "search.issuesAndPullRequests", result |-> "ok"])
             /\ env' = ExportVariable(env, "PR_COUNT", CountMerged(page))
             /\ wf' = "comment"
             /\ UNCHANGED <<failures, escaped>>
       \/ \E error \in ErrorMessages :
             LET c == CountCatch(error)
             IN  /\ calls' = Append(calls, [api |-> "search.issuesAndPullRequests", result |-> error])
                 /\ failures' = Append(failures, c.setFailed)
                 /\ escaped' = (escaped \/ c.rethrown)
                 /\ wf' = "failure"
                 /\ UNCHANGED env
    /\ UNCHANGED <<event, closedPRs, comments, pcVars, qpeVars, qmVars, cellVars>>

\* step: Comment on the Merged Pull Request
CommentOnTheMergedPullRequest ==
    /\ wf = "comment"
    /\ \E emoji \in 0..(EmojiCount - 1) :
          LET prCount == ParseInt(env, "PR_COUNT")
              prNumber == event.pull_request.number
              message == GetMessage(prCount, emoji, env["AUTHOR"], env["REPO"])
          IN  \/ /\ calls' = Append(calls, [api |-> "issues.createComment", result |-> "ok"])
                 /\ comments' = Append(comments, CreateCommentParams(env, prNumber, message))
                 /\ wf' = "success"
                 /\ UNCHANGED <<failures, escaped>>
              \/ \E error \in ErrorMessages :
                    LET c == CommentCatch(error)
                    IN  /\ calls' = Append(calls, [api |-> "issues.createComment", result |-> error])
                        /\ failures' = Append(failures, c.setFailed)
                        /\ escaped' = (escaped \/ c.rethrown)
                        /\ wf' = "failure"
                        /\ UNCHANGED comments
    /\ UNCHANGED <<event, closedPRs, env, pcVars, qpeVars, qmVars, cellVars>>

NextWorkflow ==
    \/ PullRequestEvent
    \/ JobCondition
    \/ CheckoutRepository
    \/ SetEnvironmentVariables
    \/ CountMergedPullRequests
    \/ CommentOnTheMergedPullRequest

(***************************************************************************)
(* Part 2: the local hooks of .pre-commit-config.yaml                      *)
(***************************************************************************)

\* Bounds of the pre-commit run.
MaxStaged == 2
MaxBatch == 1
Jobs == 2

\* Characters of file paths; paths are sequences of characters.
Chars(str) ==
    CASE str = ".ipynb" -> <<".", "i", "p", "y", "n", "b">>
      [] str = ".qmod" -> <<".", "q", "m", "o", "d">>
      [] str = ".yaml" -> <<".", "y", "a", "m", "l">>
      [] str = ".yml" -> <<".", "y", "m", "l">>
      [] str = "_ipynb" -> <<"_", "i", "p", "y", "n", "b">>
      [] str = "ipynb" -> <<"i", "p", "y", "n", "b">>
      [] str = "qmod" -> <<"q", "m", "o", "d">>
      [] str = "yaml" -> <<"y", "a", "m", "l">>
      [] str = "." -> <<".">>

\* The paths a commit may change: a stem, an ending and a tail.
Stems == {<<>>, <<"a">>, <<"d", "/", "a">>, <<"a", " ", "b">>}
Endings == {Chars(".ipynb"), Chars(".qmod"), Chars(".yaml"), Chars(".yml"), Chars("_ipynb")}
Tails == {<<>>, <<"\n">>, <<"~">>}
Paths == {s \o e \o t : s \in Stems, e \in Endings, t \in Tails}

\* The characters \S excludes.
IsSpace(c) == c \in {" ", "\t", "\n", "\r"}

\* The tokens of the files patterns.
Bol == [t |-> "^"]
Eol == [t |-> "$"]
NonSpacePlus == [t |-> "\\S+"]
Lit(str) == [t |-> "lit", s |-> Chars(str)]
Alt(strs) == [t |-> "alt", of |-> {Chars(x) : x \in strs}]

\* s has the characters w at position pos.
HasAt(s, pos, w) ==
    /\ pos + Len(w) - 1 <= Len(s)
    /\ \A j \in 1..Len(w) : s[pos + j - 1] = w[j]

\* The tokens re[i..] match s from position pos on (backtracking match).
RECURSIVE MatchHere(_, _, _, _)
MatchHere(re, i, s, pos) ==
    IF i > Len(re) THEN TRUE
    ELSE CASE re[i].t = "^" -> pos = 1 /\ MatchHere(re, i + 1, s, pos)
           [] re[i].t = "$" ->
                /\ \/ pos = Len(s) + 1
                   \/ pos = Len(s) /\ s[pos] = "\n"
                /\ MatchHere(re, i + 1, s, pos)
           [] re[i].t = "\\S+" ->
                \E n \in 1..(Len(s) - pos + 1) :
                    /\ \A j \in pos..(pos + n - 1) : ~IsSpace(s[j])
                    /\ MatchHere(re, i + 1, s, pos + n)
           [] re[i].t = "lit" ->
                HasAt(s, pos, re[i].s) /\ MatchHere(re, i + 1, s, pos + Len(re[i].s))
           [] re[i].t = "alt" ->
                \E w \in re[i].of : HasAt(s, pos, w) /\ MatchHere(re, i + 1, s, pos + Len(w))

\* re.search(pattern, path)
Search(re, s) == \E start \in 1..(Len(s) + 1) : MatchHere(re, 1, s, start)

\* repo: local, hooks, in the order of the file.
NotebookPreCommit ==
    [id |-> "notebook-pre-commit",
     files |-> <<Bol, NonSpacePlus, Lit(".ipynb"), Eol>>,
     require_serial |-> TRUE]

QmodPreCommit ==
    [id |-> "qmod-pre-commit",
     files |-> <<Bol, NonSpacePlus, Lit(".qmod"), Eol>>,
     require_serial |-> TRUE]

CleanDemoTimeoutsParallel ==
    [id |-> "clean-demo-timeouts",
     files |-> <<Bol, NonSpacePlus, Lit("."), Alt({"qmod", "ipynb", "yaml"}), Eol>>,
     require_serial |-> FALSE]

CleanDemoTimeouts ==
    [id |-> "clean-demo-timeouts",
     files |-> <<Bol, NonSpacePlus, Lit("."), Alt({"qmod", "ipynb", "yaml"}), Eol>>,
     require_serial |-> TRUE]

AutoAddTests ==
    [id |-> "auto-add-tests",
     files |-> <<Bol, NonSpacePlus, Lit(".ipynb"), Eol>>,
     require_serial |-> TRUE]

LocalHooks == <<NotebookPreCommit, QmodPreCommit, CleanDemoTimeouts, AutoAddTests>>
HookIds == {LocalHooks[i].id : i \in 1..Len(LocalHooks)}

\* The staged files a hook is given: those its files pattern is found in.
Matched(hook, files) == {p \in files : Search(hook.files, p)}

\* The number of processes of a hook that may run at once.
Concurrency(hook) == IF hook.require_serial THEN 1 ELSE Jobs

InitPreCommit ==
    /\ staged = {}
    /\ hookIx = 0
    /\ pending = {}
    /\ running = {}
    /\ passed = [h \in HookIds |-> {}]

\* A commit is made: pre-commit gets the changed paths.
Commit ==
    /\ hookIx = 0
    /\ \E names \in [1..MaxStaged -> Paths] :
       LET files == {names[i] : i \in 1..MaxStaged}
       IN
          /\ staged' = files
          /\ hookIx' = 1
          /\ pending' = Matched(LocalHooks[1], files)
    /\ UNCHANGED <<running, passed, wfVars, qpeVars, qmVars, cellVars>>

\* A process of the current hook is started on some of the files left.
Spawn ==
    /\ hookIx \in 1..Len(LocalHooks)
    /\ Cardinality(running) < Concurrency(LocalHooks[hookIx])
    /\ \E batch \in SUBSET pending :
          /\ Cardinality(batch) \in 1..MaxBatch
          /\ running' = running \cup {[hook |-> LocalHooks[hookIx].id, files |-> batch]}
          /\ pending' = pending \ batch
          /\ passed' = [passed EXCEPT ![LocalHooks[hookIx].id] = @ \cup batch]
    /\ UNCHANGED <<staged, hookIx, wfVars, qpeVars, qmVars, cellVars>>

\* A process exits.
Exit ==
    /\ \E proc \in running : running' = running \ {proc}
    /\ UNCHANGED <<staged, hookIx, pending, passed, wfVars, qpeVars, qmVars, cellVars>>

\* The current hook is over (or had no file to check); the next one starts.
NextHook ==
    /\ hookIx \in 1..Len(LocalHooks)
    /\ pending = {}
    /\ running = {}
    /\ hookIx' = hookIx + 1
    /\ pending' = IF hookIx < Len(LocalHooks) THEN Matched(LocalHooks[hookIx + 1], staged) ELSE {}
    /\ UNCHANGED <<staged, running, passed, wfVars, qpeVars, qmVars, cellVars>>

NextPreCommit ==
    \/ Commit
    \/ Spawn
    \/ Exit
    \/ NextHook

(***************************************************************************)
(* Part 3: the flexible QPE and its power-logic operands                   *)
(***************************************************************************)

\* Bounds of the models built.
MaxPhase == 4
MaxR0 == 3
MaxP0 == 4

\* gamma, in halves (GAMMA = 1.5 is 3); the scaling factor of the .qmod
\* model as a fraction (1.8 is 9/5); the evolution coefficient in units
\* of pi (-2 * np.pi is -2).
Gammas2 == {1, 2, 3, 4}
ScalingFactors == {[num |-> 9, den |-> 5], [num |-> 2, den |-> 1], [num |-> 3, den |-> 2]}
Coefficients == {-2, 1}
Orders == {1, 2}

\* The Hamiltonians given to the operands, by name; the scaling given to
\* powered_hamiltonian_evolution, in units of its value in main.
Hamiltonians == {"po", "pauli_terms"}
Scalings == {1, 3}

Operands == {"unitary_with_power_logic", "suzuki_trotter_with_power_logic",
             "suzuki_trotter1_with_power_logic", "powered_hamiltonian_evolution"}

NoModel == [operand |-> "none"]

\* The least n >= lo with n * n * d >= x, for lo * lo * d < x or lo = 0.
RECURSIVE LeastSquareAbove(_, _, _, _)
LeastSquareAbove(lo, hi, x, d) ==
    \* invariant: every n < lo has n*n*d < x, and hi*hi*d >= x
    IF lo = hi THEN lo
    ELSE LET mid == (lo + hi) \div 2
         IN  IF mid * mid * d >= x THEN LeastSquareAbove(lo, mid, x, d)
             ELSE LeastSquareAbove(mid + 1, hi, x, d)

RECURSIVE SquareBound(_, _, _)
SquareBound(n, x, d) == IF n * n * d >= x THEN n ELSE SquareBound(2 * n, x, d)

\* ceiling(sqrt(x / d)) for integers x >= 0, d > 0
CeilSqrt(x, d) == IF x = 0 THEN 0 ELSE LeastSquareAbove(0, SquareBound(1, x, d), x, d)

\* ceiling(a / b) for integers a >= 0, b > 0
CeilDiv(a, b) == (a + b - 1) \div b

\* ceiling(scale * (pw / p_0) ** gamma), gamma = gamma2 / 2:
\* the square root of scale^2 * pw^gamma2 / p_0^gamma2, rounded up.
CeilScaledPower(scale, pw, p_0, gamma2) ==
    CeilSqrt(scale * scale * pw ^ gamma2, p_0 ^ gamma2)

\* log(pw, 2) of a power of two
RECURSIVE Log2(_)
Log2(pw) == IF pw <= 1 THEN 0 ELSE 1 + Log2(pw \div 2)

\* The repetitions of the notebook's suzuki_trotter_with_power_logic:
\* Piecewise((r0, pw < p_0), (ceiling(r0 * (pw / p_0) ** gamma), True))
Repetitions(pw, r0, p_0, gamma2) ==
    IF pw < p_0 THEN r0 ELSE CeilScaledPower(r0, pw, p_0, gamma2)

\* A wrapper that hands its own order argument on to suzuki_trotter.
SuzukiTrotterOrderPassedOn(hamiltonian, pw, evolution_coefficient, order, target, p_0, gamma2, r0) ==
    [hamiltonian |-> hamiltonian,
     evolution_coefficient |-> evolution_coefficient * pw,
     order |-> order,
     repetitions |-> Repetitions(pw, r0, p_0, gamma2),
     qbv |-> target]

\* suzuki_trotter_with_power_logic of the notebook: its call of suzuki_trotter
SuzukiTrotterWithPowerLogic(hamiltonian, pw, evolution_coefficient, order, target, p_0, gamma2, r0) ==
    [hamiltonian |-> hamiltonian,
     evolution_coefficient |-> evolution_coefficient * pw,
     order |-> 1,
     repetitions |-> Repetitions(pw, r0, p_0, gamma2),
     qbv |-> target]

\* suzuki_trotter1_with_power_logic of qpe_for_matrix.qmod:
\* r0 * ceiling(reps_scaling_factor ** log(pw, 2))
SuzukiTrotter1WithPowerLogic(hamiltonian, pw, r0, reps_scaling_factor, evolution_coefficient, target) ==
    [hamiltonian |-> hamiltonian,
     evolution_coefficient |-> evolution_coefficient * pw,
     order |-> 1,
     repetitions |-> r0 * CeilDiv(reps_scaling_factor.num ^ Log2(pw),
                                  reps_scaling_factor.den ^ Log2(pw)),
     qbv |-> target]

\* powered_hamiltonian_evolution of the HHL model: its call of suzuki_trotter,
\* p * ((-6.28318530718) * scaling) being p * ((-2) * scaling) in units of pi
PoweredHamiltonianEvolution(hamiltonian, scaling, p, qba) ==
    [hamiltonian |-> hamiltonian,
     evolution_coefficient |-> p * ((-2) * scaling),
     order |-> 1,
     repetitions |-> 1,
     qbv |-> qba]

\* A power block that applies its body once, whatever pw is.
PowerBlockOnce(pw) == 1

\* power (pw) { body }: the number of applications of the body when the
\* power is done by repetition
PowerBlock(pw) == pw

\* The power the QPE gives its operand in iteration index: 2**index
OperandPower(index) == 2 ^ index

\* A repeat that stops one iteration early.
RepeatCountShort(phase_len) == phase_len - 1

\* The number of iterations of the repeat: phase.len
RepeatCount(phase_len) == phase_len

InitQPE ==
    /\ model = NoModel
    /\ qpc = "idle"
    /\ rep = 0
    /\ powLeft = 0
    /\ circuit = <<>>
    /\ uCalls = 0
    /\ trotterCalls = <<>>

\* main: the registers are prepared and my_qpe_flexible is called with one
\* of the operands.
Main ==
    /\ qpc = "idle"
    /\ \E m \in 1..MaxPhase, op \in Operands, r0 \in 1..MaxR0, p_0 \in 1..MaxP0,
          g \in Gammas2, f \in ScalingFactors, c \in Coefficients, o \in Orders,
          h \in Hamiltonians, s \in Scalings :
          /\ op = "unitary_with_power_logic" =>
                r0 = 1 /\ p_0 = 1 /\ g = 2 /\ c = 1 /\ o = 1 /\ h = "po"
          /\ op = "powered_hamiltonian_evolution" => r0 = 1 /\ c = 1
          /\ op # "suzuki_trotter_with_power_logic" => p_0 = 1 /\ g = 2 /\ o = 1
          /\ op # "suzuki_trotter1_with_power_logic" => f = [num |-> 2, den |-> 1]
          /\ op # "powered_hamiltonian_evolution" => s = 1
          /\ model' = [operand |-> op, phase_len |-> m, r0 |-> r0, p_0 |-> p_0,
                       gamma2 |-> g, reps_scaling_factor |-> f,
                       evolution_coefficient |-> c, order |-> o,
                       hamiltonian |-> h, scaling |-> s]
    /\ circuit' = <<[op |-> "allocate", on |-> "phase"], [op |-> "prepare_amplitudes", on |-> "state"]>>
    /\ qpc' = "apply_to_all"
    /\ UNCHANGED <<rep, powLeft, uCalls, trotterCalls, wfVars, pcVars, qmVars, cellVars>>

\* apply_to_all(H, phase)
ApplyToAllH ==
    /\ qpc = "apply_to_all"
    /\ circuit' = Append(circuit, [op |-> "H", on |-> "phase"])
    /\ qpc' = "repeat"
    /\ rep' = 0
    /\ UNCHANGED <<model, powLeft, uCalls, trotterCalls, wfVars, pcVars, qmVars, cellVars>>

\* One iteration of the repeat: control(phase[index], unitary(2**index, state)).
\* A Trotter operand (the HHL model's lambda calls powered_hamiltonian_evolution
\* with the power) makes its one call of suzuki_trotter; the exact operand
\* opens a power block of pw applications of unitary.
Iteration ==
    /\ qpc = "repeat"
    /\ rep < RepeatCount(model.phase_len)
    /\ LET pw == OperandPower(rep)
       IN  /\ circuit' = Append(circuit, [op |-> "control", ctrl |-> rep, pw |-> pw])
           /\ CASE model.operand = "unitary_with_power_logic" ->
                     /\ powLeft' = PowerBlock(pw)
                     /\ IF PowerBlock(pw) > 0
                        THEN qpc' = "power" /\ UNCHANGED rep
                        ELSE rep' = rep + 1 /\ UNCHANGED qpc
                     /\ UNCHANGED trotterCalls
                [] model.operand = "suzuki_trotter_with_power_logic" ->
                     /\ trotterCalls' = Append(trotterCalls,
                            SuzukiTrotterWithPowerLogic(model.hamiltonian, pw, model.evolution_coefficient,
                                model.order, "state", model.p_0, model.gamma2, model.r0))
                     /\ rep' = rep + 1
                     /\ UNCHANGED <<powLeft, qpc>>
                [] model.operand = "suzuki_trotter1_with_power_logic" ->
                     /\ trotterCalls' = Append(trotterCalls,
                            SuzukiTrotter1WithPowerLogic(model.hamiltonian, pw, model.r0,
                                model.reps_scaling_factor, model.evolution_coefficient, "state"))
                     /\ rep' = rep + 1
                     /\ UNCHANGED <<powLeft, qpc>>
                [] model.operand = "powered_hamiltonian_evolution" ->
                     /\ trotterCalls' = Append(trotterCalls,
                            PoweredHamiltonianEvolution(model.hamiltonian, model.scaling, pw, "state"))
                     /\ rep' = rep + 1
                     /\ UNCHANGED <<powLeft, qpc>>
    /\ UNCHANGED <<model, uCalls, wfVars, pcVars, qmVars, cellVars>>

\* power (pw) { unitary(matrix, target); } done by repetition: one call of
\* unitary; after the last one the iteration is over.
UnitaryCall ==
    /\ qpc = "power"
    /\ powLeft > 0
    /\ uCalls' = uCalls + 1
    /\ powLeft' = powLeft - 1
    /\ IF powLeft = 1
       THEN qpc' = "repeat" /\ rep' = rep + 1
       ELSE UNCHANGED <<qpc, rep>>
    /\ UNCHANGED <<model, circuit, trotterCalls, wfVars, pcVars, qmVars, cellVars>>

\* invert(qft(phase)), after the last iteration
InvertQft ==
    /\ qpc = "repeat"
    /\ rep >= RepeatCount(model.phase_len)
    /\ circuit' = Append(circuit, [op |-> "invert_qft", on |-> "phase"])
    /\ qpc' = "done"
    /\ UNCHANGED <<model, rep, powLeft, uCalls, trotterCalls, wfVars, pcVars, qmVars, cellVars>>

NextQPE ==
    \/ Main
    \/ ApplyToAllH
    \/ Iteration
    \/ UnitaryCall
    \/ InvertQft

(***************************************************************************)
(* Part 4: the main functions of the quantum models, run statement by      *)
(* statement: the design example, the HHL models, the QPE for a matrix,    *)
(* the discrete quantum walk and the set cover QAOA                        *)
(***************************************************************************)

\* Bound of the fraction digits the HHL workshop's main is run with.
MaxDigits == 3

\* A statement: the operation, the register it is about, the quantum
\* variables it operates on (uses), initializes (inits) and consumes (frees).
Stmt(op, reg, uses, inits) ==
    [op |-> op, reg |-> reg, uses |-> uses, inits |-> inits, frees |-> {},
     inverse |-> FALSE, size |-> 0, frac |-> 0, operand |-> "",
     exp |-> 0, exp_is_size |-> FALSE]

\* name: type;  (a local declaration)
Declare(name) == Stmt("declare", name, {}, {})

\* An allocate that initializes nothing.
AllocateNothing(size, out) == [Stmt("allocate", out, {}, {}) EXCEPT !.size = size]

\* allocate(size, out): an unsigned integer register unless out is typed
Allocate(size, out) == [Stmt("allocate", out, {}, {out}) EXCEPT !.size = size]

\* allocate(size, is_signed, fraction_digits, out), is_signed being False
AllocateNum(size, is_signed, fraction_digits, out) ==
    [Stmt("allocate", out, {}, {out}) EXCEPT !.size = size, !.frac = fraction_digits]

\* prepare_amplitudes(amplitudes, bound, out); prepare_state(probabilities, bound, out)
PrepareAmplitudes(out) == Stmt("prepare_amplitudes", out, {}, {out})
PrepareState(out) == Stmt("prepare_state", out, {}, {out})

\* hadamard_transform(target)
HadamardTransform(target) == Stmt("hadamard_transform", target, {target}, {})

\* out |= expression of arg
NumericAssign(out, arg) == Stmt("assign", out, {arg}, {out})

\* qpe / qpe_flexible of the operand acting on state, onto phase
Qpe(operand, state, phase) ==
    [Stmt("qpe", phase, {state, phase}, {}) EXCEPT !.operand = operand]

\* Any other call that operates on initialized variables only.
Gate(name, uses) == Stmt(name, "", uses, {})

\* src -> {dsts}
Bind(src, dsts) == [Stmt("bind", src, {src}, dsts) EXCEPT !.frees = {src}]

\* invert { block }: the block's statements inverted, in reverse order
Invert(block) ==
    [i \in 1..Len(block) |-> [block[Len(block) + 1 - i] EXCEPT !.inverse = ~@]]

\* A within-apply that does not uncompute.
WithinApplyNoUncompute(compute, action) == compute \o action

\* within { compute } apply { action }: compute, action, compute inverted
WithinApply(compute, action) == compute \o action \o Invert(compute)

\* repeat (i: count) { block }
RECURSIVE Repeat(_, _)
Repeat(count, block) == IF count = 0 THEN <<>> ELSE block \o Repeat(count - 1, block)

\* load_b of the HHL workshop
LoadB(res) == <<PrepareAmplitudes(res)>>

\* simple_eig_inv of the HHL workshop:
\* allocate(1, indicator); indicator *= (1 / 2**phase.size) / phase
SimpleEigInv(phase, indicator) ==
    <<Allocate(1, indicator),
      [Stmt("amplitude_load", phase, {phase, indicator}, {}) EXCEPT !.exp_is_size = TRUE]>>

\* my_hhl of the HHL workshop
MyHhl(fraction_digits, unitary_with_matrix, res, phase, indicator) ==
    LoadB(res)
    \o <<AllocateNum(fraction_digits, FALSE, fraction_digits, phase)>>
    \o WithinApply(<<Qpe(unitary_with_matrix, res, phase)>>, SimpleEigInv(phase, indicator))

\* inverse_amplitude_load: ind *= prefactor / phase, prefactor = 1 / 2^prefactor_exp
InverseAmplitudeLoad(prefactor_exp, phase, ind) ==
    <<[Stmt("amplitude_load", phase, {phase, ind}, {}) EXCEPT !.exp = prefactor_exp]>>

\* matrix_inversion_HHL
MatrixInversionHHL(prefactor_exp, my_unitary, state, phase, indicator) ==
    <<Allocate(1, indicator)>>
    \o WithinApply(<<Qpe(my_unitary, state, phase)>>,
                   InverseAmplitudeLoad(prefactor_exp, phase, indicator))

\* The main functions. The prefactor 0.015625 is 1 / 2^6.
DesignMain == <<Allocate(3, "x"), HadamardTransform("x"), NumericAssign("y", "x")>>

HhlWorkshopMain(fraction_digits) ==
    MyHhl(fraction_digits, "unitary", "res", "phase", "indicator")

HhlQmodMain ==
    <<Declare("xy_variable"), PrepareAmplitudes("xy_variable"), Allocate(6, "phase")>>
    \o WithinApply(<<Gate("qsct_2d", {"xy_variable"})>>,
                   MatrixInversionHHL(6, "powered_hamiltonian_evolution",
                                      "xy_variable", "phase", "indicator"))
    \o <<Bind("xy_variable", {"x_variable", "y_variable"})>>

QpeForMatrixMain ==
    <<Declare("state"), PrepareAmplitudes("state"),
      AllocateNum(8, FALSE, 8, "phase_result"),
      Qpe("unitary_with_power_logic", "state", "phase_result")>>

DiscreteQuantumWalkMain ==
    <<Allocate(4, "x"), Declare("coin"), PrepareState("coin"),
      Gate("discrete_quantum_walk", {"coin", "x"})>>

SetCoverMain ==
    <<Allocate(23, "v"), HadamardTransform("v")>>
    \o Repeat(3, <<Gate("phase", {"v"}), Gate("apply_to_all", {"v"})>>)

QmodModels == {"hhl_qmod", "qpe_for_matrix", "discrete_quantum_walk", "set_cover"}
PythonModels == {"design", "hhl_workshop"}
Models == QmodModels \cup PythonModels
Executed == {"hhl_workshop", "discrete_quantum_walk"}

NoProg == [name |-> "none", fraction_digits |-> 0]
Progs ==
    {[name |-> n, fraction_digits |-> 0] : n \in Models \ {"hhl_workshop"}}
    \cup {[name |-> "hhl_workshop", fraction_digits |-> d] : d \in 1..MaxDigits}

\* The statements of the main function of a model, calls expanded.
Code(p) ==
    CASE p.name = "design" -> DesignMain
      [] p.name = "hhl_workshop" -> HhlWorkshopMain(p.fraction_digits)
      [] p.name = "hhl_qmod" -> HhlQmodMain
      [] p.name = "qpe_for_matrix" -> QpeForMatrixMain
      [] p.name = "discrete_quantum_walk" -> DiscreteQuantumWalkMain
      [] p.name = "set_cover" -> SetCoverMain
      [] OTHER -> <<>>

\* The output arguments of main: declared by the signature.
Outputs(name) ==
    CASE name = "design" -> {"x", "y"}
      [] name = "hhl_workshop" -> {"res", "phase", "indicator"}
      [] name = "hhl_qmod" -> {"x_variable", "y_variable", "phase", "indicator"}
      [] name = "qpe_for_matrix" -> {"phase_result"}
      [] name = "discrete_quantum_walk" -> {"x"}
      [] name = "set_cover" -> {"v"}
      [] OTHER -> {}

\* The registers whose values are followed, and a basis state of them: the
\* values of x, y and phase (as unsigned integers) and the amplitude
\* num / den loaded on |1> of indicator (den = 0: a division by zero).
Tracked == {"x", "y", "phase"}
Blank == [x |-> 0, y |-> 0, phase |-> 0, num |-> 0, den |-> 1]
NoSample == [x |-> -1, y |-> -1, phase |-> -1, num |-> 0, den |-> 1]
NoRegs == [r \in Tracked |-> [size |-> 0, frac |-> 0]]

\* The values of a register of size qubits
Basis(size) == 0..(2 ^ size - 1)

\* The basis states with register r in any of its values.
Spread(bs, r, size) == {[b EXCEPT ![r] = v] : b \in bs, v \in Basis(size)}

\* The same for each followed register among names.
Havoc(bs, names, rg) ==
    LET b1 == IF "x" \in names THEN Spread(bs, "x", rg["x"].size) ELSE bs
        b2 == IF "y" \in names THEN Spread(b1, "y", rg["y"].size) ELSE b1
    IN  IF "phase" \in names THEN Spread(b2, "phase", rg["phase"].size) ELSE b2

\* The number of bits of the unsigned integer n
RECURSIVE BitLength(_)
BitLength(n) == IF n = 0 THEN 0 ELSE 1 + BitLength(n \div 2)

\* An expression without the + 1.
Square(x_value) == x_value ^ 2

\* x**2 + 1
SquarePlusOne(x_value) == x_value ^ 2 + 1

\* (1 / 2^k) / phase for the register value raw / 2^fraction_digits
Amplitude(k, fraction_digits, raw) == [num |-> 2 ^ fraction_digits, den |-> 2 ^ k * raw]

InitQmod ==
    /\ prog = NoProg
    /\ qi = 0
    /\ declared = {}
    /\ initialized = {}
    /\ early = {}
    /\ qtrace = <<>>
    /\ regs = NoRegs
    /\ branches = {Blank}
    /\ sample = NoSample

\* create_model(main): the model's main is entered, its outputs declared.
CreateModel ==
    /\ prog = NoProg
    /\ \E p \in Progs :
          /\ prog' = p
          /\ declared' = Outputs(p.name)
    /\ qi' = 1
    /\ UNCHANGED <<initialized, early, qtrace, regs, branches, sample, wfVars, pcVars, qpeVars, cellVars>>

Cur == Code(prog)[qi]
At(ops) == prog # NoProg /\ qi \in 1..Len(Code(prog)) /\ Cur.op \in ops
Finished == prog # NoProg /\ qi = Len(Code(prog)) + 1

\* What every statement does to the variables' status: a variable operated
\* on before it is declared and initialized is recorded in early.
Advance(st) ==
    /\ early' = early \cup (st.uses \ initialized) \cup ((st.uses \cup st.inits) \ declared)
    /\ initialized' = (initialized \cup st.inits) \ st.frees
    /\ declared' = IF st.op = "declare" THEN declared \cup {st.reg} ELSE declared
    /\ qtrace' = Append(qtrace, st)
    /\ qi' = qi + 1

ExecDeclare ==
    /\ At({"declare"})
    /\ Advance(Cur)
    /\ UNCHANGED <<prog, regs, branches, sample, wfVars, pcVars, qpeVars, cellVars>>

\* allocate: the register is in |0>
ExecAllocate ==
    /\ At({"allocate"})
    /\ Advance(Cur)
    /\ IF Cur.reg \in Tracked
       THEN /\ regs' = [regs EXCEPT ![Cur.reg] = [size |-> Cur.size, frac |-> Cur.frac]]
            /\ branches' = {[b EXCEPT ![Cur.reg] = 0] : b \in branches}
       ELSE /\ UNCHANGED regs
            /\ branches' = IF Cur.reg = "indicator"
                           THEN {[b EXCEPT !.num = 0, !.den = 1] : b \in branches}
                           ELSE branches
    /\ UNCHANGED <<prog, sample, wfVars, pcVars, qpeVars, cellVars>>

ExecPrepare ==
    /\ At({"prepare_amplitudes", "prepare_state"})
    /\ Advance(Cur)
    /\ UNCHANGED <<prog, regs, branches, sample, wfVars, pcVars, qpeVars, cellVars>>

\* hadamard_transform: the uniform superposition of the register's values
ExecHadamardTransform ==
    /\ At({"hadamard_transform"})
    /\ Advance(Cur)
    /\ branches' = Havoc(branches, {Cur.reg}, regs)
    /\ UNCHANGED <<prog, regs, sample, wfVars, pcVars, qpeVars, cellVars>>

\* y |= x**2 + 1: y gets the size the largest result needs and, in each
\* basis state, the result for that state's x.
ExecAssign ==
    /\ At({"assign"})
    /\ Advance(Cur)
    /\ LET largest == SquarePlusOne(2 ^ regs["x"].size - 1)
           size == BitLength(largest)
       IN  /\ regs' = [regs EXCEPT ![Cur.reg] = [size |-> size, frac |-> 0]]
           /\ branches' = {[b EXCEPT ![Cur.reg] = SquarePlusOne(b.x) % (2 ^ size)] : b \in branches}
    /\ UNCHANGED <<prog, sample, wfVars, pcVars, qpeVars, cellVars>>

\* The QPE and its inverse: the phase register may hold any of its values
\* afterwards (the inverse does not clean it in every case).
ExecQpe ==
    /\ At({"qpe"})
    /\ Advance(Cur)
    /\ branches' = Havoc(branches, {Cur.reg}, regs)
    /\ UNCHANGED <<prog, regs, sample, wfVars, pcVars, qpeVars, cellVars>>

\* ind *= prefactor / phase, in each basis state of the phase register
ExecAmplitudeLoad ==
    /\ At({"amplitude_load"})
    /\ Advance(Cur)
    /\ LET k == IF Cur.exp_is_size THEN regs[Cur.reg].size ELSE Cur.exp
       IN  branches' = {[b EXCEPT !.num = Amplitude(k, regs[Cur.reg].frac, b[Cur.reg]).num,
                                  !.den = Amplitude(k, regs[Cur.reg].frac, b[Cur.reg]).den]
                        : b \in branches}
    /\ UNCHANGED <<prog, regs, sample, wfVars, pcVars, qpeVars, cellVars>>

\* Any other call: the registers it operates on may hold any value afterwards.
ExecGate ==
    /\ At({"qsct_2d", "discrete_quantum_walk", "phase", "apply_to_all"})
    /\ Advance(Cur)
    /\ branches' = Havoc(branches, Cur.uses, regs)
    /\ UNCHANGED <<prog, regs, sample, wfVars, pcVars, qpeVars, cellVars>>

ExecBind ==
    /\ At({"bind"})
    /\ Advance(Cur)
    /\ UNCHANGED <<prog, regs, branches, sample, wfVars, pcVars, qpeVars, cellVars>>

\* execute / sample: one basis state of the result is read.
Execute ==
    /\ Finished
    /\ prog.name \in Executed
    /\ sample = NoSample
    /\ \E b \in branches : sample' = b
    /\ UNCHANGED <<prog, qi, declared, initialized, early, qtrace, regs, branches, wfVars, pcVars, qpeVars, cellVars>>

NextQmod ==
    \/ CreateModel
    \/ ExecDeclare
    \/ ExecAllocate
    \/ ExecPrepare
    \/ ExecHadamardTransform
    \/ ExecAssign
    \/ ExecQpe
    \/ ExecAmplitudeLoad
    \/ ExecGate
    \/ ExecBind
    \/ Execute

(***************************************************************************)
(* Part 5: the problem-definition cell of the HHL workshop                 *)
(***************************************************************************)

\* The matrices tried: 2 x 2, the entries in halves (-0.5 .. 1.5).
Entries == {-1, 0, 1, 2, 3}
Matrices == {<<<<a, b>>, <<c, d>>>> : a \in Entries, b \in Entries, c \in Entries, d \in Entries}
NoMatrix == <<>>

Abs(v) == IF v < 0 THEN -v ELSE v

\* A.T
Transpose(M) == <<<<M[1][1], M[2][1]>>, <<M[1][2], M[2][2]>>>>

\* np.allclose(M, N, rtol=1e-6, atol=1e-6): |m - n| <= atol + rtol * |n| for
\* each entry; in halves and times 10^6, 10^6 * |m - n| <= 2 + |n|
AllClose(M, N) ==
    \A i \in 1..2, j \in 1..2 : 1000000 * Abs(M[i][j] - N[i][j]) <= 2 + Abs(N[i][j])

\* np.linalg.eig of a symmetric M: the eigenvalues (t + sign * sqrt(disc)) / 4,
\* t the trace and disc the discriminant in halves
Eig(M) ==
    LET t == M[1][1] + M[2][2]
        disc == (M[1][1] - M[2][2]) ^ 2 + 4 * M[1][2] * M[2][1]
    IN  <<[t |-> t, disc |-> disc, sign |-> -1], [t |-> t, disc |-> disc, sign |-> 1]>>

\* sign * sqrt(disc) < c and sign * sqrt(disc) > c, for disc >= 0
SignedRootBelow(sign, disc, c) ==
    IF sign = 1 THEN c > 0 /\ disc < c * c ELSE c > 0 \/ disc > c * c
SignedRootAbove(sign, disc, c) ==
    IF sign = 1 THEN c < 0 \/ disc > c * c ELSE c < 0 /\ disc < c * c

\* lam < 0 and lam > 1
BelowZero(lam) == SignedRootBelow(lam.sign, lam.disc, -lam.t)
AboveOne(lam) == SignedRootAbove(lam.sign, lam.disc, 4 - lam.t)

\* The determinant (in quarters): np.linalg.solve raises on a singular matrix
Det(M) == M[1][1] * M[2][2] - M[1][2] * M[2][1]

InitCell ==
    /\ matA = NoMatrix
    /\ cpc = "idle"
    /\ eigenvalues = <<>>
    /\ lamIx = 0
    /\ raised = "none"
    /\ solved = FALSE

\* A = np.array(...)
DefineProblem ==
    /\ cpc = "idle"
    /\ \E M \in Matrices : matA' = M
    /\ cpc' = "symmetric"
    /\ UNCHANGED <<eigenvalues, lamIx, raised, solved, wfVars, pcVars, qpeVars, qmVars>>

\* if not np.allclose(A, A.T, rtol=1e-6, atol=1e-6): raise
VerifySymmetric ==
    /\ cpc = "symmetric"
    /\ IF ~AllClose(matA, Transpose(matA))
       THEN raised' = "The matrix is not symmetric" /\ cpc' = "raised"
       ELSE cpc' = "eig" /\ UNCHANGED raised
    /\ UNCHANGED <<matA, eigenvalues, lamIx, solved, wfVars, pcVars, qpeVars, qmVars>>

\* w, v = np.linalg.eig(A)
ComputeEig ==
    /\ cpc = "eig"
    /\ eigenvalues' = Eig(matA)
    /\ lamIx' = 1
    /\ cpc' = "for"
    /\ UNCHANGED <<matA, raised, solved, wfVars, pcVars, qpeVars, qmVars>>

\* for lam in w: if lam < 0 or lam > 1: raise
VerifyEigenvalue ==
    /\ cpc = "for"
    /\ lamIx \in 1..Len(eigenvalues)
    /\ IF BelowZero(eigenvalues[lamIx]) \/ AboveOne(eigenvalues[lamIx])
       THEN raised' = "Eigenvalues are not in (0,1)" /\ cpc' = "raised" /\ UNCHANGED lamIx
       ELSE /\ lamIx' = lamIx + 1
            /\ cpc' = IF lamIx = Len(eigenvalues) THEN "solve" ELSE "for"
            /\ UNCHANGED raised
    /\ UNCHANGED <<matA, eigenvalues, solved, wfVars, pcVars, qpeVars, qmVars>>

\* sol_classical = np.linalg.solve(A, b)
Solve ==
    /\ cpc = "solve"
    /\ IF Det(matA) = 0
       THEN raised' = "Singular matrix" /\ cpc' = "raised" /\ UNCHANGED solved
       ELSE solved' = TRUE /\ cpc' = "done" /\ UNCHANGED raised
    /\ UNCHANGED <<matA, eigenvalues, lamIx, wfVars, pcVars, qpeVars, qmVars>>

NextCell ==
    \/ DefineProblem
    \/ VerifySymmetric
    \/ ComputeEig
    \/ VerifyEigenvalue
    \/ Solve

Init == InitWorkflow /\ InitPreCommit /\ InitQPE /\ InitQmod /\ InitCell

SpecWorkflow == Init /\ [][NextWorkflow]_vars

SpecPreCommit == Init /\ [][NextPreCommit]_vars

SpecQPE == Init /\ [][NextQPE]_vars

SpecQmod == Init /\ [][NextQmod]_vars

SpecCell == Init /\ [][NextCell]_vars

(***************************************************************************)
(* Properties of the workflow (checked under SpecWorkflow)                 *)
(***************************************************************************)

CallsOf(api) == SelectSeq(calls, LAMBDA c : c.api = api)
Thrown == SelectSeq(calls, LAMBDA c : c.result # "ok")
ClosedUnmerged == event.action = "closed" /\ ~event.pull_request.merged

\* C1: for a closed event whose pull request was not merged, the job does
\* not run: no step is entered, no search is made, no PR_COUNT is
\* exported and no comment is created.
C1_OnlyMergedIsCommented ==
    ClosedUnmerged =>
        /\ wf \in {"triggered", "skipped"}
        /\ calls = <<>>
        /\ "PR_COUNT" \notin DOMAIN env
        /\ comments = <<>>

C1_Witness == ClosedUnmerged /\ wf = "skipped"

\* C2: the PR_COUNT the count step exports is the number of the author's
\* merged pull requests, however many closed pull requests there are.
C2_CountIsMergedCount ==
    "PR_COUNT" \in DOMAIN env => ParseInt(env, "PR_COUNT") = closedPRs.merged

\* C3: every exception of an API call is caught: each thrown call has its
\* core.setFailed message, made of the step's prefix and the error's
\* message, the run has failed, and no exception left a script.
CatchPrefix(api) ==
    IF api = "search.issuesAndPullRequests"
    THEN "Error counting merged pull requests: "
    ELSE "Error creating comment: "

C3_ExceptionsAreCaught ==
    /\ ~escaped
    /\ Len(failures) = Len(Thrown)
    /\ \A i \in 1..Len(Thrown) :
          failures[i] = <<CatchPrefix(Thrown[i].api), Thrown[i].result>>
    /\ Len(Thrown) > 0 => wf = "failure"

C3_Witness ==
    /\ Len(calls) = 1
    /\ calls[1].api = "search.issuesAndPullRequests"
    /\ calls[1].result # "ok"
    /\ Len(failures) = 1

\* C4: a run whose two API calls succeeded has created exactly one comment,
\* on the pull request of the event, in the event's owner and repository.
BothCallsSucceeded ==
    /\ Len(calls) = 2
    /\ \A i \in 1..2 : calls[i].result = "ok"

C4_OneCommentOnThePullRequest ==
    BothCallsSucceeded =>
        /\ Len(comments) = 1
        /\ comments[1].issue_number = event.pull_request.number
        /\ comments[1].owner = event.repository.owner.login
        /\ comments[1].repo = event.repository.name

C4_Witness == BothCallsSucceeded /\ wf = "success" /\ event.pull_request.number = 2

\* C5: no call is retried: in one run each API is called at most once, and
\* a call that failed is the last call of the run.
C5_NoRetry ==
    /\ Len(CallsOf("search.issuesAndPullRequests")) <= 1
    /\ Len(CallsOf("issues.createComment")) <= 1
    /\ \A i \in 1..Len(calls) : calls[i].result # "ok" => i = Len(calls)

C5_Witness == Len(Thrown) = 1 /\ wf = "failure"

(***************************************************************************)
(* Properties of the pre-commit run (checked under SpecPreCommit)          *)
(***************************************************************************)

RunOver == hookIx = Len(LocalHooks) + 1

\* The path ends in the characters of str.
EndsIn(path, str) ==
    LET w == Chars(str)
    IN  Len(path) >= Len(w) /\ SubSeq(path, Len(path) - Len(w) + 1, Len(path)) = w

\* The path is one or more characters none of which is white space, then
\* str, then nothing or one final newline.
IsNamed(path, str) ==
    LET w == Chars(str)
    IN  \E nl \in 0..1 :
           LET k == Len(path) - Len(w) - nl
           IN  /\ k >= 1
               /\ \A j \in 1..k : path[j] \notin {" ", "\t", "\n", "\r"}
               /\ SubSeq(path, k + 1, k + Len(w)) = w
               /\ nl = 1 => path[Len(path)] = "\n"

\* C6: after the run, a changed path has been passed to a hook exactly when
\* it ends in one of the hook's extensions: .ipynb for notebook-pre-commit
\* and auto-add-tests, .qmod for qmod-pre-commit, and .qmod, .ipynb or
\* .yaml for clean-demo-timeouts.
C6_PassedIffEndsIn ==
    RunOver =>
        \A p \in staged :
            /\ p \in passed["notebook-pre-commit"] <=> EndsIn(p, ".ipynb")
            /\ p \in passed["auto-add-tests"] <=> EndsIn(p, ".ipynb")
            /\ p \in passed["qmod-pre-commit"] <=> EndsIn(p, ".qmod")
            /\ p \in passed["clean-demo-timeouts"] <=>
                  (EndsIn(p, ".qmod") \/ EndsIn(p, ".ipynb") \/ EndsIn(p, ".yaml"))

\* What the patterns select instead: a changed path is passed to a hook
\* exactly when it is a run of one or more non-white-space characters
\* followed by one of the hook's extensions, with nothing or a single final
\* newline after the extension.
PassedIffNamed ==
    RunOver =>
        \A p \in staged :
            /\ p \in passed["notebook-pre-commit"] <=> IsNamed(p, ".ipynb")
            /\ p \in passed["auto-add-tests"] <=> IsNamed(p, ".ipynb")
            /\ p \in passed["qmod-pre-commit"] <=> IsNamed(p, ".qmod")
            /\ p \in passed["clean-demo-timeouts"] <=>
                  (IsNamed(p, ".qmod") \/ IsNamed(p, ".ipynb") \/ IsNamed(p, ".yaml"))

PassedAndMissed ==
    /\ RunOver
    /\ \E p \in staged : p \in passed["notebook-pre-commit"] /\ p \in passed["clean-demo-timeouts"]
    /\ \E p \in staged : EndsIn(p, ".ipynb") /\ p \notin passed["notebook-pre-commit"]

\* C7: at no time do two processes of the same local hook run.
C7_NoHookRunsTwiceAtOnce ==
    \A h \in HookIds : Cardinality({proc \in running : proc.hook = h}) <= 1

C7_Witness ==
    /\ pending # {}
    /\ \E proc \in running : proc.hook = "clean-demo-timeouts"

(***************************************************************************)
(* Properties of the flexible QPE (checked under SpecQPE)                  *)
(***************************************************************************)

Controls == SelectSeq(circuit, LAMBDA g : g.op = "control")
QpeDone == qpc = "done"

ExactOperand == model.operand = "unitary_with_power_logic"

Ansatz(p, r0, p_0, gamma2) ==
    IF p < p_0 THEN r0 ELSE r0 * CeilScaledPower(1, p, p_0, gamma2)

\* C10: every call of suzuki_trotter made by the notebook's
\* suzuki_trotter_with_power_logic has repetitions = f(p), p being the
\* power of the iteration.
C10_RepetitionsAreAnsatz ==
    model.operand = "suzuki_trotter_with_power_logic" =>
        \A i \in 1..Len(trotterCalls) :
            trotterCalls[i].repetitions =
                Ansatz(2 ^ (i - 1), model.r0, model.p_0, model.gamma2)

\* The coefficient the wrapper is given: its evolution_coefficient argument,
\* or (-6.28318530718) * scaling in powered_hamiltonian_evolution.
GivenCoefficient ==
    IF model.operand = "powered_hamiltonian_evolution"
    THEN (-2) * model.scaling
    ELSE model.evolution_coefficient

TrotterOperand == model.operand \in Operands \ {"unitary_with_power_logic"}

HhlModel == prog.name \in {"hhl_workshop", "hhl_qmod"}
HhlSteps ==
    SelectSeq(qtrace, LAMBDA s : s.op \in {"prepare_amplitudes", "qpe", "amplitude_load"})

\* C12: an HHL model applies, in this order and no other, the state
\* preparation, the QPE of the unitary onto the phase register, the
\* eigenvalue inversion, and the inverse QPE with the operand and the
\* registers of the QPE; a finished model has applied exactly these four.
C12_FourStepsInOrder ==
    HhlModel =>
        /\ Len(HhlSteps) <= 4
        /\ Finished => Len(HhlSteps) = 4
        /\ \A i \in 1..Len(HhlSteps) :
              CASE i = 1 -> HhlSteps[i].op = "prepare_amplitudes"
                [] i = 2 -> /\ HhlSteps[i].op = "qpe" /\ ~HhlSteps[i].inverse
                            /\ HhlSteps[1].reg \in HhlSteps[i].uses
                [] i = 3 -> /\ HhlSteps[i].op = "amplitude_load" /\ ~HhlSteps[i].inverse
                            /\ HhlSteps[i].reg = HhlSteps[2].reg
                [] i = 4 -> /\ HhlSteps[i].op = "qpe" /\ HhlSteps[i].inverse
                            /\ HhlSteps[i].operand = HhlSteps[2].operand
                            /\ HhlSteps[i].reg = HhlSteps[2].reg
                            /\ HhlSteps[i].uses = HhlSteps[2].uses

C12_Witness ==
    /\ prog.name = "hhl_qmod"
    /\ Finished
    /\ Len(HhlSteps) = 4
    /\ HhlSteps[4].operand = "powered_hamiltonian_evolution"

Loaded == \E i \in 1..Len(qtrace) : qtrace[i].op = "amplitude_load"

\* C13: in the HHL workshop's model, where C = 1 / 2^m for a phase register
\* of m fraction digits, the amplitude C / lambda loaded on the indicator is
\* defined and in [-1, 1] for every value lambda of the phase register.
C13_AmplitudesNormalized ==
    (prog.name = "hhl_workshop" /\ Loaded) =>
        \A b \in branches : b.den # 0 /\ -b.den <= b.num /\ b.num <= b.den

\* What holds instead: right after the load, the amplitude is defined and
\* in [-1, 1] for every value of the phase register but 0.
AmplitudesNormalizedOffZero ==
    (prog.name = "hhl_workshop" /\ Loaded /\ ~Finished) =>
        \A b \in branches :
            b.phase # 0 => (b.den # 0 /\ -b.den <= b.num /\ b.num <= b.den)

\* C15: in the main of every .qmod model, no statement operates on a
\* quantum variable that is not declared and initialized by then.
C15_InitializedBeforeUse == prog.name \in QmodModels => early = {}

C15_Witness ==
    /\ prog.name = "hhl_qmod"
    /\ Finished
    /\ initialized = {"phase", "indicator", "x_variable", "y_variable"}
    /\ "xy_variable" \in declared

DesignDone == prog.name = "design" /\ Finished

\* C16: the design example's x has 3 qubits, and its output pairs each
\* value i of 0..7 of x with y = i^2 + 1 and with no other value of y.
C16_SquarePlusOneOverZeroToSeven ==
    DesignDone =>
        /\ regs["x"].size = 3
        /\ {<<b.x, b.y>> : b \in branches} = {<<i, i ^ 2 + 1>> : i \in 0..7}

C16_Witness == DesignDone /\ \E b \in branches : b.x = 7 /\ b.y = 50

(***************************************************************************)
(* Properties of the problem-definition cell (checked under SpecCell)      *)
(***************************************************************************)

Symmetric(M) == M[1][2] = M[2][1]

\* 0 < lam < 1
InsideOpenUnit(lam) ==
    /\ SignedRootAbove(lam.sign, lam.disc, -lam.t)
    /\ SignedRootBelow(lam.sign, lam.disc, 4 - lam.t)

\* 0 <= lam <= 1
InsideClosedUnit(lam) ==
    /\ ~SignedRootBelow(lam.sign, lam.disc, -lam.t)
    /\ ~SignedRootAbove(lam.sign, lam.disc, 4 - lam.t)

\* C14: a matrix that is not symmetric or has an eigenvalue outside the
\* open interval (0,1) never gets to the classical solution, and one that is
\* not symmetric never gets to the eigenvalues.
C14_OnlyOpenUnitAccepted ==
    matA # NoMatrix =>
        /\ ~(Symmetric(matA) /\ \A i \in 1..2 : InsideOpenUnit(Eig(matA)[i])) =>
              cpc \notin {"solve", "done"} /\ ~solved
        /\ ~Symmetric(matA) => eigenvalues = <<>>

\* What the cell checks instead: the closed interval [0,1].
OnlyClosedUnitAccepted ==
    matA # NoMatrix =>
        /\ ~(Symmetric(matA) /\ \A i \in 1..2 : InsideClosedUnit(Eig(matA)[i])) =>
              cpc \notin {"solve", "done"} /\ ~solved
        /\ ~Symmetric(matA) => eigenvalues = <<>>

(***************************************************************************)
(* The failed count step (checked under SpecWorkflow)                      *)
(***************************************************************************)

CountFailed ==
    \E i \in 1..Len(calls) :
        calls[i].api = "search.issuesAndPullRequests" /\ calls[i].result # "ok"

\* C17: after a failed count step no PR_COUNT is exported, the comment step
\* is not entered and no comment is created; and the comment step is entered
\* only with a PR_COUNT that parses to a number.
C17_NoCommentAfterFailedCount ==
    /\ CountFailed =>
          /\ "PR_COUNT" \notin DOMAIN env
          /\ wf = "failure"
          /\ CallsOf("issues.createComment") = <<>>
          /\ comments = <<>>
    /\ wf = "comment" => ~IsNaN(ParseInt(env, "PR_COUNT"))

C17_Witness ==
    /\ CountFailed
    /\ wf = "failure"
    /\ "AUTHOR" \in DOMAIN env
    /\ failures[1][2] = "API rate limit exceeded"

====
